---- MODULE Spec2Model ----
(***************************************************************************)
(* socket-nn client scripts: test.py and examples/client.py.               *)
(*                                                                         *)
(* Both scripts share send_array / recv_array / exchange and differ only   *)
(* in main.  The model follows one run of one script against one peer.     *)
(*                                                                         *)
(* Numbers.  Array elements are float64 in the source.  The model keeps    *)
(* them as fixed-point integers in units of 1e-8 (so 1.0 is ONE), which is *)
(* the resolution of numpy.allclose's default absolute tolerance.          *)
(* Bytes.  A stream is a sequence of bytes 0..255.  The array format is    *)
(* self-describing: a magic byte, the two dimensions, then ItemSize bytes  *)
(* per element (sign byte, then the magnitude little-endian).              *)
(***************************************************************************)
EXTENDS Integers, Sequences, FiniteSets, TLC

\* ---------------------------------------------------------------- bounds
\* Number of different draws numpy.random.randn may produce in a run.
NumSeeds == 2

\* ------------------------------------------------------ program constants
\* s.recv(1024): the most bytes one recv returns.
RecvBufSize == 1024
\* 1.0 in fixed-point units of 1e-8 (np.eye, np.ones).
ONE == 100000000
\* numpy.allclose defaults: atol = 1e-8 (one unit), rtol = 1e-5 (1/RtolInv).
ATOL == 1
RtolInv == 100000
\* First byte of a serialized array (0x93).
MAGIC == 147
\* Bytes of the header: magic, rows, cols.
HeaderLen == 3
\* Bytes per float64 element.
ItemSize == 8
\* Number of exchanges main performs in test.py.
TestSteps == 3
\* Number of exchanges main performs in examples/client.py.
ClientSteps == 1
\* Shapes used by the drivers.
TestDim == 2
ClientCols == 32
ClientOutCols == 10

Scripts == {"test", "client"}

Abs(v) == IF v < 0 THEN -v ELSE v
Min(a, b) == IF a < b THEN a ELSE b
Max(a, b) == IF a < b THEN b ELSE a

\* ------------------------------------------------------------------ arrays
\* A 2-d array: shape <<rows, cols>> and the elements in row-major order.
Array(r, c, d) == [shape |-> <<r, c>>, data |-> d]
\* Python's None for "no array yet".
NoArray == Array(0, 0, <<>>)
Size(A) == A.shape[1] * A.shape[2]

\* np.eye(2)
Eye(n) == Array(n, n, [i \in 1..(n * n) |-> IF (i - 1) \div n = (i - 1) % n THEN ONE ELSE 0])
\* np.ones((r, c))
Ones(r, c) == Array(r, c, [i \in 1..(r * c) |-> ONE])
\* np.random.randn(r, c): a pseudo-random draw, determined by the seed.
Randn(r, c, seed) ==
    Array(r, c, [i \in 1..(r * c) |-> (((seed * 7 + i * 5) % 9) - 4) * (ONE \div 4) + seed])
\* 1 - A (scalar minus array)
OneMinus(A) == Array(A.shape[1], A.shape[2], [i \in 1..Size(A) |-> ONE - A.data[i]])

\* numpy broadcasting of two 2-d shapes.
Broadcastable(s, t) ==
    /\ (s[1] = t[1] \/ s[1] = 1 \/ t[1] = 1)
    /\ (s[2] = t[2] \/ s[2] = 1 \/ t[2] = 1)
BShape(s, t) == <<Max(s[1], t[1]), Max(s[2], t[2])>>
\* Element (i, j) of A seen through broadcasting.
BGet(A, i, j) ==
    A.data[((IF A.shape[1] = 1 THEN 1 ELSE i) - 1) * A.shape[2]
            + (IF A.shape[2] = 1 THEN 1 ELSE j)]
\* A - B with broadcasting (caller checks Broadcastable).
Sub(A, B) ==
    LET s == BShape(A.shape, B.shape)
    IN  Array(s[1], s[2],
              [k \in 1..(s[1] * s[2]) |->
                  LET i == ((k - 1) \div s[2]) + 1
                      j == ((k - 1) % s[2]) + 1
                  IN  BGet(A, i, j) - BGet(B, i, j)])
\* A + B for equal shapes.
Add(A, B) == Array(A.shape[1], A.shape[2], [i \in 1..Size(A) |-> A.data[i] + B.data[i]])

\* np.allclose(A, B): |a - b| <= atol + rtol * |b| elementwise, after broadcasting.
AllClose(A, B) ==
    /\ Broadcastable(A.shape, B.shape)
    /\ LET s == BShape(A.shape, B.shape)
       IN  \A i \in 1..s[1], j \in 1..s[2] :
              Abs(BGet(A, i, j) - BGet(B, i, j)) <= ATOL + (Abs(BGet(B, i, j)) \div RtolInv)

\* ----------------------------------------------------------- serialization
RECURSIVE Digits(_, _)
\* n little-endian base-256 digits of v >= 0.
Digits(v, n) == IF n = 0 THEN <<>> ELSE <<v % 256>> \o Digits(v \div 256, n - 1)
RECURSIVE FromDigits(_)
FromDigits(s) == IF s = <<>> THEN 0 ELSE s[1] + 256 * FromDigits(Tail(s))
\* Mutant of ElemValue: the sign byte is not read.
ElemValueUnsigned(b) == FromDigits(Tail(b))
\* One element as ItemSize bytes: sign, then magnitude.
ElemBytes(v) == <<IF v < 0 THEN 1 ELSE 0>> \o Digits(Abs(v), ItemSize - 1)
\* The element ItemSize bytes stand for.
ElemValue(b) == IF b[1] = 1 THEN -FromDigits(Tail(b)) ELSE FromDigits(Tail(b))
RECURSIVE DataBytes(_)
DataBytes(d) == IF d = <<>> THEN <<>> ELSE ElemBytes(d[1]) \o DataBytes(Tail(d))
\* The serialized form of A that np.save writes.
Encode(A) == <<MAGIC, A.shape[1], A.shape[2]>> \o DataBytes(A.data)

\* Mutant of Decode: the two dimensions are read in the wrong order.
DecodeSwapped(b) ==
    IF Len(b) = 0 THEN [err |-> "EOFError", arr |-> NoArray]
    ELSE IF Len(b) < HeaderLen \/ b[1] # MAGIC THEN [err |-> "ValueError", arr |-> NoArray]
    ELSE IF Len(b) < HeaderLen + b[2] * b[3] * ItemSize
         THEN [err |-> "ValueError", arr |-> NoArray]
         ELSE [err |-> "none",
               arr |-> Array(b[3], b[2],
                   [i \in 1..(b[2] * b[3]) |->
                       IF SubSeq(b, HeaderLen + (i - 1) * ItemSize + 1, HeaderLen + i * ItemSize)[1] = 1
                       THEN -FromDigits(Tail(SubSeq(b, HeaderLen + (i - 1) * ItemSize + 1, HeaderLen + i * ItemSize)))
                       ELSE FromDigits(Tail(SubSeq(b, HeaderLen + (i - 1) * ItemSize + 1, HeaderLen + i * ItemSize)))])]

\* What np.load makes of a byte string: an array, or the exception raised.
\* Bytes after the last element are not read.
Decode(b) ==
    IF Len(b) = 0 THEN [err |-> "EOFError", arr |-> NoArray]
    ELSE IF Len(b) < HeaderLen \/ b[1] # MAGIC THEN [err |-> "ValueError", arr |-> NoArray]
    ELSE LET r == b[2]
             c == b[3]
         IN  IF Len(b) < HeaderLen + r * c * ItemSize
             THEN [err |-> "ValueError", arr |-> NoArray]
             ELSE [err |-> "none",
                   arr |-> Array(r, c,
                       [i \in 1..(r * c) |->
                           ElemValue(SubSeq(b, HeaderLen + (i - 1) * ItemSize + 1,
                                               HeaderLen + i * ItemSize))])]

\* ------------------------------------------------------------ io.BytesIO
\* An in-memory file: contents and position.
NewBytesIO == [buf |-> <<>>, pos |-> 0]
\* Mutant of Write: the chunk replaces the contents instead of extending them.
WriteOverwrite(f, z) == [buf |-> z, pos |-> Len(z)]
\* f.write(z): overwrite/extend at the position, advance it.
Write(f, z) ==
    [buf |-> SubSeq(f.buf, 1, f.pos) \o z \o SubSeq(f.buf, f.pos + Len(z) + 1, Len(f.buf)),
     pos |-> f.pos + Len(z)]
\* Mutant of Seek: the position is left where it is.
SeekNoop(f, p) == f
\* f.seek(p)
Seek(f, p) == [buf |-> f.buf, pos |-> p]
\* f.read(): everything from the position to the end.
Read(f) == SubSeq(f.buf, f.pos + 1, Len(f.buf))
\* np.save(f, A)
NpSave(f, A) == Write(f, Encode(A))
\* np.load(f)
NpLoad(f) == Decode(Read(f))

\* ------------------------------------------------------------ the drivers
\* Exchanges main performs.
NumSteps(sc) == IF sc = "test" THEN TestSteps ELSE ClientSteps
MaxSteps == Max(TestSteps, ClientSteps)

\* The array main builds before its k-th call of exchange.
Input(sc, k, seed) ==
    IF sc = "test"
    THEN IF k = 1 THEN Eye(TestDim)
         ELSE IF k = 2 THEN OneMinus(Eye(TestDim))
         ELSE Randn(TestDim, TestDim, seed)
    ELSE Randn(1, ClientCols, seed)

\* The statements of main after exchange returns y for input a: "none" when
\* they all pass, otherwise the exception raised.
AssertOutcome(sc, a, y) ==
    IF sc = "test"
    THEN IF ~Broadcastable(y.shape, a.shape) THEN "ValueError"
         ELSE IF AllClose(Sub(y, a), Ones(TestDim, TestDim)) THEN "none"
         ELSE "AssertionError"
    ELSE IF y.shape # <<1, ClientOutCols>> THEN "AssertionError"
         ELSE IF AllClose(y, Array(1, 1, <<0>>)) THEN "none"
         ELSE "AssertionError"

\* ------------------------------------------------------------ the server
\* The responses the server may give to request A: for test.py's server the
\* input plus ones; for the mlp server a 1x10 vector that is approximately
\* zero.
ServerOutputs(sc, A) ==
    IF sc = "test"
    THEN {Add(A, Ones(A.shape[1], A.shape[2]))}
    ELSE {Array(1, ClientOutCols, [i \in 1..ClientOutCols |-> 0]),
          Array(1, ClientOutCols, [i \in 1..ClientOutCols |-> ATOL]),
          Array(1, ClientOutCols, [i \in 1..ClientOutCols |-> IF i % 2 = 0 THEN -ATOL ELSE 0])}

\* Byte strings a peer that follows no protocol may send back.
ArbResponses(sc, a) ==
    LET want == IF sc = "test" THEN Add(a, Ones(a.shape[1], a.shape[2]))
                ELSE Array(1, ClientOutCols, [i \in 1..ClientOutCols |-> 0])
        good == Encode(want)
        near == Array(want.shape[1], want.shape[2], [i \in 1..Size(want) |-> want.data[i] + ATOL])
        far  == Array(want.shape[1], want.shape[2], [i \in 1..Size(want) |-> want.data[i] + 2 * ATOL + (ONE \div RtolInv)])
    IN  {<<>>,
         good,
         SubSeq(good, 1, Len(good) - 1),
         <<0>> \o Tail(good),
         good \o <<7, 7>>,
         Encode(near),
         Encode(far),
         Encode(a),
         Encode(Array(1, 1, <<2 * ONE>>)),
         Encode(Array(3, 1, <<0, 0, 0>>))}

PeerKinds == {"spec", "holdopen", "eofwait", "arbitrary"}

VARIABLES
    script,     \* which script runs: "test" or "client"
    peerKind,   \* how the peer behaves
    step,       \* index of main's current exchange
    pc,         \* position of the script
    x,          \* argument A of the current exchange
    result,     \* value recv_array produced in the current exchange
    exc,        \* exception in flight ("none" when there is none)
    sock,       \* state of the socket of each exchange
    calls,      \* how many times exchange was called for each step of main
    cliWrOpen,  \* client's write side of the connection is open
    c2s,        \* bytes sent by the client, not yet read by the peer
    handed,     \* every byte the client handed to the socket on this connection
    s2c,        \* bytes sent by the peer, not yet received by the client
    peerSent,   \* every byte the peer sent on this connection
    peerState,  \* "listen", "accepted", "replied", "closed"
    peerBuf,    \* request bytes the peer has read
    rf,         \* the BytesIO of recv_array
    chunks,     \* non-empty chunks recv has returned in this recv_array: 0, 1, 2 = several
    log         \* socket events of the current exchange, in order

vars == <<script, peerKind, step, pc, x, result, exc, sock, calls, cliWrOpen, c2s,
          handed, s2c, peerSent, peerState, peerBuf, rf, chunks, log>>

runVars == <<script, peerKind>>
peerVars == <<s2c, peerSent, peerState, peerBuf>>

InitWith(kinds) ==
    /\ script \in Scripts
    /\ peerKind \in kinds
    /\ step = 1
    /\ pc = "main"
    /\ x = NoArray
    /\ result = NoArray
    /\ exc = "none"
    /\ sock = [k \in 1..MaxSteps |-> "none"]
    /\ calls = [k \in 1..MaxSteps |-> 0]
    /\ cliWrOpen = FALSE
    /\ c2s = <<>>
    /\ handed = <<>>
    /\ s2c = <<>>
    /\ peerSent = <<>>
    /\ peerState = "listen"
    /\ peerBuf = <<>>
    /\ rf = NewBytesIO
    /\ chunks = 0
    /\ log = <<>>

Init == InitWith(PeerKinds)

\* ------------------------------------------------------- main and exchange
\* main builds the next input and calls exchange, which opens its with block:
\* socket.socket(...) makes a new, unconnected socket, and the connection it
\* will carry is a new pair of streams.
CallExchange ==
    /\ pc = "main"
    /\ \E seed \in 1..NumSeeds : x' = Input(script, step, seed)
    /\ calls' = [calls EXCEPT ![step] = @ + 1]
    /\ result' = NoArray
    /\ sock' = [sock EXCEPT ![step] = "created"]
    /\ cliWrOpen' = FALSE
    /\ c2s' = <<>>
    /\ handed' = <<>>
    /\ s2c' = <<>>
    /\ peerSent' = <<>>
    /\ peerState' = "listen"
    /\ peerBuf' = <<>>
    /\ log' = <<>>
    /\ pc' = "connect"
    /\ UNCHANGED <<runVars, step, exc, rf, chunks>>

\* Mutant of Connect: exchange goes on to recv_array without send_array.
ConnectSkipSend ==
    /\ pc = "connect"
    /\ peerState = "listen"
    /\ sock' = [sock EXCEPT ![step] = "connected"]
    /\ peerState' = "accepted"
    /\ cliWrOpen' = TRUE
    /\ log' = Append(log, "connect")
    /\ pc' = "recv_array"
    /\ UNCHANGED <<runVars, step, x, result, exc, calls, c2s, handed, s2c, peerSent, peerBuf, rf, chunks>>

\* s.connect(addr) succeeds.
Connect ==
    /\ pc = "connect"
    /\ peerState = "listen"
    /\ sock' = [sock EXCEPT ![step] = "connected"]
    /\ peerState' = "accepted"
    /\ cliWrOpen' = TRUE
    /\ log' = Append(log, "connect")
    /\ pc' = "send"
    /\ UNCHANGED <<runVars, step, x, result, exc, calls, c2s, handed, s2c, peerSent, peerBuf, rf, chunks>>

\* s.connect(addr) raises.
ConnectFail ==
    /\ pc = "connect"
    /\ exc' = "ConnectionRefusedError"
    /\ pc' = "exit"
    /\ UNCHANGED <<runVars, step, x, result, sock, calls, cliWrOpen, c2s, handed, peerVars, rf, chunks, log>>

\* The bytes send_array passes to sendall.
SendBuffer(A) == Read(Seek(NpSave(NewBytesIO, A), 0))

\* Mutant of SendArray: the write side is shut down after sendall.
SendArrayShutdown ==
    /\ pc = "send"
    /\ c2s' = c2s \o SendBuffer(x)
    /\ handed' = handed \o SendBuffer(x)
    /\ cliWrOpen' = FALSE
    /\ log' = Append(log, "send")
    /\ pc' = "recv_array"
    /\ UNCHANGED <<runVars, step, x, result, exc, sock, calls, peerVars, rf, chunks>>

\* send_array(s, A): serialize, rewind, sendall.
SendArray ==
    /\ pc = "send"
    /\ c2s' = c2s \o SendBuffer(x)
    /\ handed' = handed \o SendBuffer(x)
    /\ log' = Append(log, "send")
    /\ pc' = "recv_array"
    /\ UNCHANGED <<runVars, step, x, result, exc, sock, calls, cliWrOpen, peerVars, rf, chunks>>

\* sendall raises after handing over only part of the buffer.
SendFail ==
    /\ pc = "send"
    /\ \E n \in 0..(Len(SendBuffer(x)) - 1) :
          /\ c2s' = c2s \o SubSeq(SendBuffer(x), 1, n)
          /\ handed' = handed \o SubSeq(SendBuffer(x), 1, n)
    /\ exc' = "BrokenPipeError"
    /\ pc' = "exit"
    /\ UNCHANGED <<runVars, step, x, result, sock, calls, cliWrOpen, peerVars, rf, chunks, log>>

\* Mutant of RecvArrayEnter: the buffer of the previous call is used again.
RecvArrayEnterStale ==
    /\ pc = "recv_array"
    /\ chunks' = 0
    /\ log' = Append(log, "recv")
    /\ pc' = "recv_loop"
    /\ UNCHANGED <<runVars, step, x, result, exc, sock, calls, cliWrOpen, c2s, handed, peerVars, rf>>

\* recv_array(s): with io.BytesIO() as f, then the first recv is issued.
RecvArrayEnter ==
    /\ pc = "recv_array"
    /\ rf' = NewBytesIO
    /\ chunks' = 0
    /\ log' = Append(log, "recv")
    /\ pc' = "recv_loop"
    /\ UNCHANGED <<runVars, step, x, result, exc, sock, calls, cliWrOpen, c2s, handed, peerVars>>

\* z = s.recv(1024) returns a non-empty chunk; f.write(z).
RecvChunk ==
    /\ pc = "recv_loop"
    /\ s2c # <<>>
    /\ \E n \in 1..Min(RecvBufSize, Len(s2c)) :
          /\ rf' = Write(rf, SubSeq(s2c, 1, n))
          /\ s2c' = SubSeq(s2c, n + 1, Len(s2c))
    /\ chunks' = IF chunks < 2 THEN chunks + 1 ELSE chunks
    /\ UNCHANGED <<runVars, step, pc, x, result, exc, sock, calls, cliWrOpen, c2s, handed,
                   peerSent, peerState, peerBuf, log>>

\* Mutant of RecvEOF: the loop also ends once a whole array has arrived.
RecvStopWhenComplete ==
    /\ pc = "recv_loop"
    /\ s2c = <<>>
    /\ (peerState = "closed" \/ Decode(rf.buf).err = "none")
    /\ log' = Append(log, "eof")
    /\ pc' = "load"
    /\ UNCHANGED <<runVars, step, x, result, exc, sock, calls, cliWrOpen, c2s, handed, peerVars, rf, chunks>>

\* z = s.recv(1024) returns b"": the peer closed and nothing is left; break.
RecvEOF ==
    /\ pc = "recv_loop"
    /\ s2c = <<>>
    /\ peerState = "closed"
    /\ log' = Append(log, "eof")
    /\ pc' = "load"
    /\ UNCHANGED <<runVars, step, x, result, exc, sock, calls, cliWrOpen, c2s, handed, peerVars, rf, chunks>>

\* s.recv(1024) raises.
RecvFail ==
    /\ pc = "recv_loop"
    /\ exc' = "ConnectionResetError"
    /\ pc' = "exit"
    /\ UNCHANGED <<runVars, step, x, result, sock, calls, cliWrOpen, c2s, handed, peerVars, rf, chunks, log>>

\* f.seek(0); x = np.load(f); return x -- or np.load raises.
Load ==
    /\ pc = "load"
    /\ LET r == NpLoad(Seek(rf, 0))
       IN  /\ result' = r.arr
           /\ exc' = r.err
    /\ pc' = "exit"
    /\ UNCHANGED <<runVars, step, x, sock, calls, cliWrOpen, c2s, handed, peerVars, rf, chunks, log>>

\* Mutant of Exit: the socket is closed on the normal path only.
ExitLeakOnError ==
    /\ pc = "exit"
    /\ sock' = [sock EXCEPT ![step] = IF exc = "none" THEN "closed" ELSE @]
    /\ cliWrOpen' = (exc # "none" /\ cliWrOpen)
    /\ log' = IF exc = "none" THEN Append(log, "close") ELSE log
    /\ pc' = IF exc = "none" THEN "assert" ELSE "raised"
    /\ UNCHANGED <<runVars, step, x, result, exc, calls, c2s, handed, peerVars, rf, chunks>>

\* Mutant of Exit: an exception is caught and the exchange is called again.
ExitRetry ==
    /\ pc = "exit"
    /\ sock' = [sock EXCEPT ![step] = "closed"]
    /\ cliWrOpen' = FALSE
    /\ log' = Append(log, "close")
    /\ pc' = IF exc = "none" THEN "assert" ELSE IF calls[step] < 2 THEN "main" ELSE "raised"
    /\ exc' = IF calls[step] < 2 THEN "none" ELSE exc
    /\ UNCHANGED <<runVars, step, x, result, calls, c2s, handed, peerVars, rf, chunks>>

\* The end of the with block of exchange: the socket is closed, then the
\* result is returned or the exception goes on to the caller.
Exit ==
    /\ pc = "exit"
    /\ sock' = [sock EXCEPT ![step] = "closed"]
    /\ cliWrOpen' = FALSE
    /\ log' = Append(log, "close")
    /\ pc' = IF exc = "none" THEN "assert" ELSE "raised"
    /\ UNCHANGED <<runVars, step, x, result, exc, calls, c2s, handed, peerVars, rf, chunks>>

\* main's assertions on the returned array, then the next step of main.
MainAssert ==
    /\ pc = "assert"
    /\ LET out == AssertOutcome(script, x, result)
       IN  /\ exc' = out
           /\ pc' = IF out # "none" THEN "raised"
                    ELSE IF step < NumSteps(script) THEN "main" ELSE "done"
           /\ step' = IF out = "none" /\ step < NumSteps(script) THEN step + 1 ELSE step
    /\ UNCHANGED <<runVars, x, result, sock, calls, cliWrOpen, c2s, handed, peerVars, rf, chunks, log>>

\* -------------------------------------------------------------------- peer
\* The peer reads what the client has sent so far.
PeerRead ==
    /\ peerState = "accepted"
    /\ c2s # <<>>
    /\ peerBuf' = peerBuf \o c2s
    /\ c2s' = <<>>
    /\ UNCHANGED <<runVars, step, pc, x, result, exc, sock, calls, cliWrOpen, handed,
                   s2c, peerSent, peerState, rf, chunks, log>>

\* The peer has one whole request and sends one encoded array back.  A peer
\* of kind "eofwait" takes the request to end at end-of-stream only.
PeerReply ==
    /\ peerKind \in {"spec", "holdopen", "eofwait"}
    /\ peerState = "accepted"
    /\ Decode(peerBuf).err = "none"
    /\ peerKind = "eofwait" => (~cliWrOpen /\ c2s = <<>>)
    /\ \E out \in ServerOutputs(script, Decode(peerBuf).arr) :
          /\ s2c' = s2c \o Encode(out)
          /\ peerSent' = peerSent \o Encode(out)
    /\ peerState' = "replied"
    /\ UNCHANGED <<runVars, step, pc, x, result, exc, sock, calls, cliWrOpen, c2s, handed,
                   peerBuf, rf, chunks, log>>

\* The peer closes the connection after its reply.
PeerClose ==
    /\ peerKind # "holdopen"
    /\ peerState = "replied"
    /\ peerState' = "closed"
    /\ UNCHANGED <<runVars, step, pc, x, result, exc, sock, calls, cliWrOpen, c2s, handed,
                   s2c, peerSent, peerBuf, rf, chunks, log>>

\* A peer that follows no protocol sends some byte string.
PeerArbSend ==
    /\ peerKind = "arbitrary"
    /\ peerState = "accepted"
    /\ \E r \in ArbResponses(script, x) :
          /\ s2c' = s2c \o r
          /\ peerSent' = peerSent \o r
    /\ peerState' = "replied"
    /\ UNCHANGED <<runVars, step, pc, x, result, exc, sock, calls, cliWrOpen, c2s, handed,
                   peerBuf, rf, chunks, log>>

\* ---------------------------------------------------------- specifications
\* The script and a peer, no transport failure.
NextPeers ==
    \/ CallExchange
    \/ Connect
    \/ SendArray
    \/ RecvArrayEnter
    \/ RecvChunk
    \/ RecvEOF
    \/ Load
    \/ Exit
    \/ MainAssert
    \/ PeerRead
    \/ PeerReply
    \/ PeerClose

\* Any peer, and calls that may fail.
Next ==
    \/ NextPeers
    \/ ConnectFail
    \/ SendFail
    \/ RecvFail
    \/ PeerArbSend

Spec == Init /\ [][Next]_vars

\* The three peers the claims speak of, under fair scheduling: a blocking
\* call that can return does return, and a peer that can act does act.
LiveInit == InitWith({"spec", "holdopen", "eofwait"})
LiveSpec == LiveInit /\ [][NextPeers]_vars /\ WF_vars(NextPeers)

\* The server as the specification describes it.
ServerInit == InitWith({"spec"})
ServerSpec == ServerInit /\ [][NextPeers]_vars /\ WF_vars(NextPeers)

\* ------------------------------------------------------------- properties
IsPrefix(a, b) == Len(a) <= Len(b) /\ SubSeq(b, 1, Len(a)) = a
Has(l, e) == \E i \in 1..Len(l) : l[i] = e
Count(l, e) == Cardinality({i \in 1..Len(l) : l[i] = e})
NotClose(e) == e # "close"
FullCycle == <<"connect", "send", "recv", "eof", "close">>
\* Exchange k has ended, by return or by exception.
Finished(k) == k < step \/ (k = step /\ pc \in {"assert", "raised", "done"})

\* C1: whenever a call of exchange has ended, by normal return or by an
\* exception of connect, send_array or recv_array (decode failures
\* included), the socket that call created is closed.
C1_SocketClosedOnEveryExit ==
    \A k \in 1..MaxSteps : Finished(k) => sock[k] = "closed"
\* An exchange that ended with a decode failure, its socket closed.
C1_Witness ==
    /\ pc = "raised"
    /\ exc = "ValueError"
    /\ Has(log, "eof")
    /\ sock[step] = "closed"

\* C2: the socket events of one exchange occur in the order connect, send,
\* receive, end-of-stream, close, each at most once; no byte is handed to the
\* socket before connect succeeded; the first recv is issued only when the
\* whole request has been handed over; the socket is closed only after
\* end-of-stream was seen or a failure occurred; an exchange that returns
\* has gone through the whole cycle exactly once.
C2_EventOrder ==
    /\ IsPrefix(SelectSeq(log, NotClose), SubSeq(FullCycle, 1, 4))
    /\ \A i \in 1..Len(log) : log[i] = "close" => i = Len(log)
    /\ handed # <<>> => (Has(log, "connect") /\ sock[step] # "created")
    /\ Has(log, "recv") => handed = Encode(x)
    /\ sock[step] = "closed" => (Has(log, "eof") \/ exc # "none")
    /\ pc # "main" => (Has(log, "close") <=> sock[step] = "closed")
    /\ pc = "assert" => log = FullCycle
\* A successful exchange, back in main.
C2_Witness ==
    /\ pc = "assert"
    /\ log = FullCycle
    /\ exc = "none"
    /\ chunks = 2

\* C3: while recv_array reads, the buffer followed by the bytes still in
\* flight is exactly what the peer sent; it leaves the loop only at
\* end-of-stream, when the buffer holds every byte the peer sent, in order;
\* and what it decodes is what np.load makes of the peer's byte sequence,
\* however that sequence was cut into chunks.
C3_RecvConcatenates ==
    /\ pc = "recv_loop" => (rf.buf \o s2c = peerSent /\ rf.pos = Len(rf.buf))
    /\ pc = "load" => (peerState = "closed" /\ s2c = <<>> /\ rf.buf = peerSent)
    /\ (pc \in {"exit", "assert", "raised", "done"} /\ Has(log, "eof")) =>
          /\ rf.buf = peerSent
          /\ result = Decode(peerSent).arr
          /\ (pc = "exit" => exc = Decode(peerSent).err)
\* End-of-stream after the reply arrived in several chunks.
C3_Witness ==
    /\ pc = "load"
    /\ chunks = 2
    /\ rf.buf = peerSent
    /\ Len(peerSent) > HeaderLen

\* C4: what send_array hands to the socket is the whole serialized form of
\* A from its first byte: after send_array returned the bytes handed over on
\* the connection are exactly Encode(A), sendall was called once, and at no
\* time has the connection carried anything but a prefix of Encode(A): the
\* bytes the peer has read followed by those in flight are the bytes handed over.
C4_SendWholeBufferOnce ==
    /\ Has(log, "send") => handed = Encode(x)
    /\ Count(log, "send") <= 1
    /\ sock[step] # "none" => IsPrefix(handed, Encode(x))
    /\ peerBuf \o c2s = handed
\* The 1x32 request, handed over whole, while the client waits for the reply.
C4_Witness ==
    /\ script = "client"
    /\ pc = "recv_loop"
    /\ handed = Encode(x)
    /\ Len(handed) = HeaderLen + ClientCols * ItemSize

\* The state part and the step part of failure propagation.
C5_Always ==
    /\ \A k \in 1..MaxSteps : calls[k] <= 1
    /\ \A k \in 1..MaxSteps : k > step => (calls[k] = 0 /\ sock[k] = "none")
    /\ pc \in {"main", "connect", "send", "recv_array", "recv_loop", "load",
               "assert", "done"} => exc = "none"
C5_Step ==
    /\ exc # "none" =>
          /\ exc' = exc
          /\ pc' \in {"exit", "raised"}
          /\ calls' = calls
          /\ step' = step
    /\ pc = "raised" => (pc' = "raised" /\ sock' = sock /\ UNCHANGED <<x, result, handed, rf, log>>)
    /\ (pc = "load" /\ Decode(rf.buf).err # "none" /\ pc' # pc) =>
          (exc' = Decode(rf.buf).err /\ pc' = "exit")
    /\ (pc = "assert" /\ AssertOutcome(script, x, result) # "none" /\ pc' # pc) => pc' = "raised"
\* C5: no failure is caught or retried.  Once an exception is in flight it
\* stays in flight, the script only unwinds (exit, then raised), exchange is
\* not called again and main does not move to a later step; a raised script
\* stays raised; exchange is called at most once per step, and after a
\* failure no later step has been started.
C5_FailuresPropagate == []C5_Always /\ [][C5_Step]_vars
\* test.py stopped in its second exchange by a peer that closed after zero
\* bytes; the third exchange was never started.
C5_Witness ==
    /\ script = "test"
    /\ pc = "raised"
    /\ step = 2
    /\ exc = "EOFError"
    /\ peerSent = <<>>
    /\ calls = <<1, 1, 0>>

\* C6: at most one client socket is open at a time; the exchanges of main
\* are started in program order, each after the socket of the one before is
\* closed; a connection starts with empty streams; and the buffers of an
\* exchange hold bytes of that exchange only.
C6_SequentialIndependent ==
    /\ Cardinality({k \in 1..MaxSteps : sock[k] \in {"created", "connected"}}) <= 1
    /\ \A k \in 1..(MaxSteps - 1) : sock[k + 1] # "none" => sock[k] = "closed"
    /\ \A k \in 1..MaxSteps : (k < step => calls[k] = 1) /\ (sock[k] # "none" => calls[k] = 1)
    /\ pc = "connect" => (handed = <<>> /\ c2s = <<>> /\ s2c = <<>> /\ peerSent = <<>>)
    /\ pc \in {"recv_loop", "load"} => rf.buf \o s2c = peerSent
    /\ pc \in {"recv_array", "recv_loop", "load"} => handed = Encode(x)
\* The second exchange of test.py receiving, the first one's socket closed.
C6_Witness ==
    /\ script = "test"
    /\ step = 2
    /\ pc = "recv_loop"
    /\ rf.buf # <<>>
    /\ sock[1] = "closed"
    /\ sock[2] = "connected"

\* What holds of test.py at every moment of a run against the server.
C7_Always ==
    script = "test" =>
        /\ pc # "raised"
        /\ (pc \in {"assert", "done"} \/ (pc = "main" /\ step > 1)) =>
              /\ result = Add(x, Ones(TestDim, TestDim))
              /\ Sub(result, x) = Ones(TestDim, TestDim)
              /\ AssertOutcome(script, x, result) = "none"
\* C7: against the server, every exchange of test.py returns the input plus
\* the all-ones matrix, so response minus input is all ones, each assertion
\* passes, main never raises, and main completes.
C7_TestPasses == []C7_Always /\ (script = "test" => <>(pc = "done" /\ step = TestSteps))
\* main of test.py done after the random matrix came back incremented.
C7_Witness ==
    /\ script = "test"
    /\ pc = "done"
    /\ step = TestSteps
    /\ x \notin {Eye(TestDim), OneMinus(Eye(TestDim))}
    /\ result = Add(x, Ones(TestDim, TestDim))

\* C8 as stated: every 1x32 exchange of client.py returns a 1x10 array all of
\* whose elements are zero.
C8_ExactlyZero ==
    (script = "client" /\ pc \in {"assert", "done"}) =>
        /\ result.shape = <<1, ClientOutCols>>
        /\ \A i \in 1..ClientOutCols : result.data[i] = 0
\* C8 amended: every 1x32 exchange of client.py returns an array of shape
\* 1x10, a shape other than the input's, every element of which is zero to
\* within allclose's absolute tolerance, so both assertions pass and main
\* never raises.
C8_ApproxZero ==
    script = "client" =>
        /\ pc # "raised"
        /\ pc \in {"assert", "done"} =>
              /\ x.shape = <<1, ClientCols>>
              /\ result.shape = <<1, ClientOutCols>>
              /\ result.shape # x.shape
              /\ \A i \in 1..ClientOutCols : Abs(result.data[i]) <= ATOL
              /\ AssertOutcome(script, x, result) = "none"
\* main of client.py done with a response that is not exactly zero.
C8_Witness ==
    /\ script = "client"
    /\ pc = "done"
    /\ result.shape = <<1, ClientOutCols>>
    /\ \E i \in 1..ClientOutCols : result.data[i] # 0

\* How the receive loop may be left, and where a peer that never closes keeps the client.
C9_LoopStep ==
    (pc = "recv_loop" /\ pc' # "recv_loop") => (s2c = <<>> /\ peerState = "closed")
C9_HoldOpen ==
    peerKind = "holdopen" => pc \in {"main", "connect", "send", "recv_array", "recv_loop"}
\* C9: against the server every exchange that is started ends with a decoded
\* array; the receive loop is left only at end-of-stream; and against a peer
\* that never closes, exchange never gets past the loop, even with a whole
\* encoded array received.
C9_Termination ==
    /\ (peerKind = "spec" /\ pc = "connect") ~> (pc = "assert" /\ exc = "none" /\ result # NoArray)
    /\ [][C9_LoopStep]_vars
    /\ []C9_HoldOpen
\* Blocked in recv with a whole array in the buffer and the peer still open.
C9_Witness ==
    /\ peerKind = "holdopen"
    /\ pc = "recv_loop"
    /\ s2c = <<>>
    /\ peerState = "replied"
    /\ Decode(rf.buf).err = "none"

\* C10: from the end of send_array to the close at the end of exchange the
\* client's write side stays open; so against a peer that replies only after
\* end-of-stream of the request no reply is ever sent, exchange never
\* returns, and once the peer has read the request neither side can take
\* another step.
C10_NoHalfCloseDeadlock ==
    /\ pc \in {"recv_array", "recv_loop", "load", "exit"} => cliWrOpen
    /\ peerKind = "eofwait" =>
          /\ peerSent = <<>>
          /\ pc \in {"main", "connect", "send", "recv_array", "recv_loop"}
          /\ (pc = "recv_loop" /\ c2s = <<>>) => ~ENABLED NextPeers
\* Client in recv, the peer holding the whole request and waiting for more.
C10_Witness ==
    /\ peerKind = "eofwait"
    /\ pc = "recv_loop"
    /\ c2s = <<>>
    /\ peerBuf = Encode(x)
    /\ peerState = "accepted"
    /\ cliWrOpen
    /\ ~ENABLED NextPeers
====
